---- MODULE Spec2Model ----
(***************************************************************************)
(* Model of the BioMassters helper scripts:                                *)
(*   utils.py       getFilesForChip / platformToFiles (chip file resolver) *)
(*   downloader.py  downloadFile, downloadFilesForChipId,                  *)
(*                  checkForDownloadDir, downloadNChips                    *)
(* Python strings that the code splits, joins or matches by prefix or      *)
(* substring are sequences of one-character strings; dictionary keys and   *)
(* column names, which the code only compares whole, are TLA+ strings.     *)
(***************************************************************************)
EXTENDS Integers, Sequences, FiniteSets, TLC

VARIABLES agbDir, trainDir, rcall,
          fs, hist,
          pc, n, download_dir, region, agbm_metadata, features_metadata, sampleIdx, i, j, log, setupRec

resolverVars == <<agbDir, trainDir, rcall>>
fileVars == <<fs, hist>>
orchVars == <<pc, n, download_dir, region, agbm_metadata, features_metadata, sampleIdx, i, j, log, setupRec>>
vars == <<agbDir, trainDir, rcall, fs, hist,
          pc, n, download_dir, region, agbm_metadata, features_metadata, sampleIdx, i, j, log, setupRec>>

(***************************************************************************)
(* Python str and list primitives used by the code.                        *)
(***************************************************************************)

\* str.startswith(prefix)
StartsWith(s, p) == Len(p) <= Len(s) /\ SubSeq(s, 1, Len(p)) = p

\* str.endswith(suffix)
EndsWith(s, p) == Len(p) <= Len(s) /\ SubSeq(s, Len(s) - Len(p) + 1, Len(s)) = p

\* does sub occur in s at position k
OccursAt(s, sub, k) == k + Len(sub) - 1 <= Len(s) /\ \A t \in 1..Len(sub) : s[k + t - 1] = sub[t]

RECURSIVE Find(_, _, _)
\* str.find(sub, start), 1-based; 0 when sub does not occur at or after k
Find(s, sub, k) ==
    IF k + Len(sub) - 1 > Len(s) THEN 0
    ELSE IF OccursAt(s, sub, k) THEN k
    ELSE Find(s, sub, k + 1)

\* `sub in s` for strings
Contains(s, sub) == Find(s, sub, 1) # 0

RECURSIVE SplitFrom(_, _, _)
\* the pieces of s from position k on, cut at each leftmost non-overlapping occurrence of sep
SplitFrom(s, sep, k) ==
    LET at == Find(s, sep, k)
    IN  IF at = 0 THEN <<SubSeq(s, k, Len(s))>>
        ELSE <<SubSeq(s, k, at - 1)>> \o SplitFrom(s, sep, at + Len(sep))

\* str.split(sep)
Split(s, sep) == SplitFrom(s, sep, 1)

RECURSIVE StrJoin(_, _)
\* sep.join(parts)
StrJoin(sep, parts) ==
    IF Len(parts) = 0 THEN <<>>
    ELSE IF Len(parts) = 1 THEN parts[1]
    ELSE parts[1] \o sep \o StrJoin(sep, Tail(parts))

\* posixpath.join(a, b)
OsPathJoin2(a, b) ==
    IF StartsWith(b, <<"/">>) THEN b
    ELSE IF Len(a) = 0 \/ EndsWith(a, <<"/">>) THEN a \o b
    ELSE a \o <<"/">> \o b

\* posixpath.join(a, b, c)
OsPathJoin3(a, b, c) == OsPathJoin2(OsPathJoin2(a, b), c)

RECURSIVE MapJoin(_, _)
\* [os.path.join(folder, f) for f in names]
MapJoin(folder, names) ==
    IF Len(names) = 0 THEN <<>>
    ELSE <<OsPathJoin2(folder, names[1])>> \o MapJoin(folder, Tail(names))

\* range of a sequence
Range(s) == {s[k] : k \in 1..Len(s)}

\* injective sequences of length len over S
InjSeqs(S, len) == {s \in [1..len -> S] : \A a, b \in 1..len : a # b => s[a] # s[b]}

(***************************************************************************)
(* utils.py                                                                *)
(***************************************************************************)

\* default of os.getenv('AGB_DATA', "./data/agb")
AGB_FOLDER == <<".", "/", "d", "a", "t", "a", "/", "a", "g", "b">>

\* default of os.getenv('TRAIN_DATA', "./data/train")
TRAIN_FOLDER == <<".", "/", "d", "a", "t", "a", "/", "t", "r", "a", "i", "n">>

\* the substrings the S1 and S2 lambdas look for
TagS1 == <<"S", "1">>
TagS2 == <<"S", "2">>
TagAGB == <<"A", "G", "B">>

\* platformToFiles['AGB'] filter
MatchAGB(f, chip) == StartsWith(f, chip)

\* the S1 filter without its substring test
MatchS1_NoTag(f, chip) == StartsWith(f, chip)

\* platformToFiles['S1'] filter
MatchS1(f, chip) == StartsWith(f, chip) /\ Contains(f, TagS1)

\* platformToFiles['S2'] filter
MatchS2(f, chip) == StartsWith(f, chip) /\ Contains(f, TagS2)

\* the module-level dictionary for one chip: key -> the list its lambda returns and the directory it lists
platformToFiles(agbListing, trainListing, chip) ==
    [AGB |-> [files  |-> MapJoin(AGB_FOLDER, SelectSeq(agbListing, LAMBDA f : MatchAGB(f, chip))),
              listed |-> <<"AGB_FOLDER">>],
     S1  |-> [files  |-> MapJoin(TRAIN_FOLDER, SelectSeq(trainListing, LAMBDA f : MatchS1(f, chip))),
              listed |-> <<"TRAIN_FOLDER">>],
     S2  |-> [files  |-> MapJoin(TRAIN_FOLDER, SelectSeq(trainListing, LAMBDA f : MatchS2(f, chip))),
              listed |-> <<"TRAIN_FOLDER">>]]

\* the platform argument: None or a str
None == [isNone |-> TRUE, val |-> ""]
Str(s) == [isNone |-> FALSE, val |-> s]

\* the keys the platform-is-None branch looks up, in evaluation order
NoneBranchKeys == <<"agb", "s1", "s2">>

\* outcomes of a call
Returned(files, listed) == [kind |-> "return", files |-> files, listed |-> listed, value |-> "", valid |-> {}]
KeyError(key, listed) == [kind |-> "KeyError", files |-> <<>>, listed |-> listed, value |-> key, valid |-> {}]
ValueError(value, valid) == [kind |-> "ValueError", files |-> <<>>, listed |-> <<>>, value |-> value, valid |-> valid]

\* an unrecognised platform answered with an empty list instead of an error
UnknownPlatform_Default(value, valid) == Returned(<<>>, <<>>)

\* the else branch: raise ValueError(f'Platform {platform} not found, must be one of {platformToFiles.keys()}')
UnknownPlatform(value, valid) == ValueError(value, valid)

RECURSIVE ConcatLookups(_, _, _, _)
\* d[k1](chip) + d[k2](chip) + d[k3](chip), evaluated left to right; a missing key raises KeyError
ConcatLookups(d, keys, files, listed) ==
    IF Len(keys) = 0 THEN Returned(files, listed)
    ELSE IF keys[1] \notin DOMAIN d THEN KeyError(keys[1], listed)
    ELSE ConcatLookups(d, Tail(keys), files \o d[keys[1]].files, listed \o d[keys[1]].listed)

\* getFilesForChip(chip, platform)
getFilesForChip(agbListing, trainListing, chip, platform) ==
    LET d == platformToFiles(agbListing, trainListing, chip)
    IN  IF platform.isNone THEN ConcatLookups(d, NoneBranchKeys, <<>>, <<>>)
        ELSE IF platform.val \in DOMAIN d THEN Returned(d[platform.val].files, d[platform.val].listed)
        ELSE UnknownPlatform(platform.val, DOMAIN d)

(***************************************************************************)
(* downloader.py                                                           *)
(***************************************************************************)

\* the two folder arguments downloadNChips passes
train_features == <<"t", "r", "a", "i", "n", "_", "f", "e", "a", "t", "u", "r", "e", "s">>
train_agbm == <<"t", "r", "a", "i", "n", "_", "a", "g", "b", "m">>

\* the region tags that select one of the s3path_us, s3path_eu, s3path_as columns
Regions == {"us", "eu", "as"}

\* f"s3path_{region}"
S3PathCol(reg) == "s3path_" \o reg

\* the bucket taken from the wrong side of the split
Bucket_Off(s3path) == Split(Split(s3path, <<"/", "/">>)[2], <<"/">>)[2]

\* bucket = s3path.split("//")[1].split("/")[0]
Bucket(s3path) == Split(Split(s3path, <<"/", "/">>)[2], <<"/">>)[1]

\* s3path = "/".join(s3path.split("//")[1].split("/")[1:])
Key(s3path) == StrJoin(<<"/">>, Tail(Split(Split(s3path, <<"/", "/">>)[2], <<"/">>)))

\* an s3 URI scheme://bucket/key
MkUri(bucket, key) == <<"s", "3", ":", "/", "/">> \o bucket \o <<"/">> \o key

\* a metadata row; the three mirrors differ in the bucket only
Row(chip_id, filename, key) ==
    [chip_id |-> chip_id, filename |-> filename,
     s3path_us |-> MkUri(<<"b", "-", "u", "s">>, key),
     s3path_eu |-> MkUri(<<"b", "u", "c", "k", "e", "t">>, key),
     s3path_as |-> MkUri(<<"b", "-", "a", "s">>, key)]

\* rows of features_metadata.csv
FeatA1 == Row("a", <<"a", "_", "S", "1", ".", "t", "i", "f">>, train_features \o <<"/">> \o <<"a", "_", "S", "1", ".", "t", "i", "f">>)
FeatA2 == Row("a", <<"a", "_", "S", "2", ".", "t", "i", "f">>, train_features \o <<"/">> \o <<"a", "_", "S", "2", ".", "t", "i", "f">>)
FeatB1 == Row("b", <<"b", "_", "S", "1", ".", "t", "i", "f">>, train_features \o <<"/">> \o <<"b", "_", "S", "1", ".", "t", "i", "f">>)

\* rows of train_agbm_metadata.csv; AgbmA2 repeats the chip id of AgbmA
AgbmA == Row("a", <<"a", "_", "a", "g", "b", "m", ".", "t", "i", "f">>, train_agbm \o <<"/">> \o <<"a", "_", "a", "g", "b", "m", ".", "t", "i", "f">>)
AgbmB == Row("b", <<"b", "_", "a", "g", "b", "m", ".", "t", "i", "f">>, train_agbm \o <<"/">> \o <<"b", "_", "a", "g", "b", "m", ".", "t", "i", "f">>)
AgbmC == Row("c", <<"c", "_", "a", "g", "b", "m", ".", "t", "i", "f">>, train_agbm \o <<"/">> \o <<"c", "_", "a", "g", "b", "m", ".", "t", "i", "f">>)
AgbmA2 == Row("a", <<"a", "_", "a", "g", "b", "m", "2", ".", "t", "i", "f">>, train_agbm \o <<"/">> \o <<"a", "_", "a", "g", "b", "m", "2", ".", "t", "i", "f">>)

\* the row of the documentation: 001b0634_S1_00.tif
DocRow == Row("001b0634", <<"0", "0", "1", "b", "0", "6", "3", "4", "_", "S", "1", "_", "0", "0", ".", "t", "i", "f">>, train_features \o <<"/">> \o <<"0", "0", "1", "b", "0", "6", "3", "4", "_", "S", "1", "_", "0", "0", ".", "t", "i", "f">>)

\* a row nobody validated: its filename is not the end of any key, and its mirrors hold
\* a bare object name, a key three folders deep and an ordinary key
OddRow ==
    [chip_id |-> "d", filename |-> <<"g", ".", "t", "i", "f">>,
     s3path_us |-> MkUri(<<"b", "-", "u", "s">>, <<"h", ".", "t", "i", "f">>),
     s3path_eu |-> MkUri(<<"b", "u", "c", "k", "e", "t">>, <<"x", "/", "y", "/", "z", "/", "h", ".", "t", "i", "f">>),
     s3path_as |-> MkUri(<<"b", "-", "a", "s">>, train_agbm \o <<"/">> \o <<"h", ".", "t", "i", "f">>)]

\* every row the model hands to downloadFile
AllRows == {FeatA1, FeatA2, FeatB1, AgbmA, AgbmB, AgbmC, AgbmA2, DocRow, OddRow}

\* the URIs those rows carry
AllUris == {r[S3PathCol(reg)] : r \in AllRows, reg \in Regions}

\* Bucket and Key of each URI, evaluated once
BucketOf == [u \in AllUris |-> Bucket(u)]
KeyOf == [u \in AllUris |-> Key(u)]

\* filepath = os.path.join(download_dir, folder, filename)
Filepath(ddir, folder, filename) == OsPathJoin3(ddir, folder, filename)

\* os.path.exists(p) on the filesystem f (a function from existing paths to what is there)
OsPathExists(f, p) == p \in DOMAIN f

\* os.path.dirname(p)
Dirname(p) ==
    LET ks == {k \in 1..Len(p) : p[k] = "/"}
    IN  IF ks = {} THEN <<>> ELSE SubSeq(p, 1, (CHOOSE k \in ks : \A m \in ks : m <= k) - 1)

\* the directories above p
Ancestors(p) == {SubSeq(p, 1, k - 1) : k \in {m \in 2..Len(p) : p[m] = "/"}}

\* os.makedirs(p): p and every missing directory above it
OsMakedirs(f, p) == [q \in ((Ancestors(p) \cup {p}) \ DOMAIN f) |-> "dir"] @@ f

\* the existence test the wrong way round
ShouldFetch_Inverted(f, filepath) == OsPathExists(f, filepath)

\* a fetch that ignores what is on disk
ShouldFetch_Always(f, filepath) == TRUE

\* if not os.path.exists(filepath)
ShouldFetch(f, filepath) == ~OsPathExists(f, filepath)

\* s3.download_file can write the target only into an existing directory
FetchOutcomes(f, filepath) ==
    IF OsPathExists(f, Dirname(filepath)) /\ f[Dirname(filepath)] = "dir"
    THEN {"ok", "error"} ELSE {"error"}

\* what is at path p: "absent", "dir", "old" (a file found on disk) or "remote" (a fetched object)
At(f, p) == IF p \in DOMAIN f THEN f[p] ELSE "absent"

\* downloadFile(row, download_dir, region, folder) on filesystem f, the fetch ending in outcome
downloadFile(f, row, ddir, reg, folder, outcome) ==
    LET filename == row.filename
        s3path   == row[S3PathCol(reg)]
        bucket   == BucketOf[s3path]
        key      == KeyOf[s3path]
        filepath == Filepath(ddir, folder, filename)
        fetch    == ShouldFetch(f, filepath)
        after    == IF fetch /\ outcome = "ok" THEN (filepath :> "remote") @@ f ELSE f
    IN  [op |-> "downloadFile", row |-> row, download_dir |-> ddir, region |-> reg,
         folder |-> folder, filepath |-> filepath, bucket |-> bucket, key |-> key,
         before |-> At(f, filepath), fetched |-> fetch, raised |-> fetch /\ outcome = "error",
         after |-> At(after, filepath), fs |-> after]

\* directory creation that does not look first
NeedsCreate_Always(f, p) == TRUE

\* if not os.path.exists(...) in checkForDownloadDir
NeedsCreate(f, p) == ~OsPathExists(f, p)

\* one `if not exists: makedirs` statement
MakeIfMissing(st, p) ==
    IF NeedsCreate(st.fs, p) THEN [fs |-> OsMakedirs(st.fs, p), made |-> Append(st.made, p)] ELSE st

\* the three directories checkForDownloadDir looks after
SetupDirs(ddir) ==
    <<ddir, OsPathJoin2(ddir, train_features), OsPathJoin2(ddir, train_agbm)>>

\* checkForDownloadDir(download_dir) on filesystem f
checkForDownloadDir(f, ddir) ==
    LET d  == SetupDirs(ddir)
        s1 == MakeIfMissing([fs |-> f, made |-> <<>>], d[1])
        s2 == MakeIfMissing(s1, d[2])
        s3 == MakeIfMissing(s2, d[3])
    IN  [op |-> "checkForDownloadDir", download_dir |-> ddir,
         before |-> {q \in Range(d) : OsPathExists(f, q)}, made |-> s3.made,
         after |-> {q \in Range(d) : OsPathExists(s3.fs, q)},
         created |-> (DOMAIN s3.fs) \ (DOMAIN f), fs |-> s3.fs]

\* rows sampled with replacement
Sample_WithReplacement(len, k) == [1..k -> 1..len]

\* DataFrame.sample(n=k) on a table of len rows: k distinct row positions in any order
Sample(len, k) == InjSeqs(1..len, k)

\* every row of the table, whatever its chip
ChipRows_NoFilter(metadata, chip_id) == metadata

\* metadata[metadata.chip_id == chip_id], in table order
ChipRows(metadata, chip_id) == SelectSeq(metadata, LAMBDA r : r.chip_id = chip_id)

\* a loop that carries on after a failed download
AfterDownload_Swallow(raised, more) == IF more THEN "loop" ELSE "done"

\* control after a downloadFile call in downloadNChips: an exception leaves the function
AfterDownload(raised, more) == IF raised THEN "raised" ELSE IF more THEN "loop" ELSE "done"

(***************************************************************************)
(* Inputs: directory listings, metadata rows and tables, arguments.        *)
(***************************************************************************)

\* longest directory listing
MaxListing == 2

\* largest n passed to downloadNChips
MaxN == 3

\* files found on disk before the first call
MaxInitFiles == 1

\* chip ids asked for; the first is a prefix of the second
Chips == {<<"a">>, <<"a", "b">>}

\* names that may be present in TRAIN_FOLDER
TrainPool == {<<"a", "_", "S", "1">>, <<"a", "_", "S", "2">>, <<"a", "b", "_", "S", "1">>, <<"a", "_", "x">>, <<"b", "_", "S", "1">>}

\* names that may be present in AGB_FOLDER
AgbPool == {<<"a", "_", "a", "g", "b", "m">>, <<"a", "b", "_", "a", "g", "b", "m">>, <<"b", "_", "a", "g", "b", "m">>}

\* os.listdir results: any order, no name twice
Listings(pool) == UNION {InjSeqs(pool, len) : len \in 0..MaxListing}

\* platform arguments: None, the three keys, and two strings that are not keys
Platforms == {None, Str("AGB"), Str("S1"), Str("S2"), Str("S3"), Str("agb")}

\* what pd.read_csv may find in train_agbm_metadata.csv
AgbmTables == {<<AgbmA, AgbmB, AgbmC>>, <<AgbmA, AgbmB, AgbmA2>>}

\* what pd.read_csv may find in features_metadata.csv
FeaturesTables == {<<FeatA1, FeatB1, FeatA2>>, <<FeatB1>>}

\* rows handed to downloadFile directly
FileRows == {DocRow, OddRow}

\* download_dir arguments
DownloadDirs == {<<"d", "l">>}

\* folder arguments
Folders == {train_features, train_agbm}

\* the directory trees that can exist under download_dir before a run
DirStates(dd) ==
    LET d == SetupDirs(dd)
    IN  {{}, {d[1]}, {d[1], d[2]}, {d[1], d[3]}, {d[1], d[2], d[3]}}

\* the filesystem holding the directories ds and the files fl, found on disk
MkFs(ds, fl) == [q \in ds \cup fl |-> IF q \in ds THEN "dir" ELSE "old"]

\* file paths a call can target under the existing directories ds
Targets(dd, ds, rows) ==
    {Filepath(dd, fo, r.filename) : fo \in {x \in Folders : OsPathJoin2(dd, x) \in ds}, r \in rows}

\* filesystems before a run: a directory tree and at most maxFiles of the files in it
InitFs(rows, maxFiles) ==
    UNION {UNION {{MkFs(ds, fl) : fl \in {x \in SUBSET Targets(dd, ds, rows) : Cardinality(x) <= maxFiles}}
                  : ds \in DirStates(dd)}
           : dd \in DownloadDirs}

(***************************************************************************)
(* State machines.                                                         *)
(***************************************************************************)

\* strip the filesystem from the result of an operation, leaving what is logged
Logged(res) == [x \in (DOMAIN res) \ {"fs"} |-> res[x]]

NoCall == [called |-> FALSE, chip |-> <<>>, platform |-> None, result |-> Returned(<<>>, <<>>)]
NoSetup == [op |-> "none", download_dir |-> <<>>, before |-> {}, made |-> <<>>, after |-> {}, created |-> {}]

\* the resolver is not in use
ResolverIdle == agbDir = <<>> /\ trainDir = <<>> /\ rcall = NoCall

\* downloadNChips is not in use
OrchIdle ==
    /\ pc = "idle" /\ n = 0 /\ download_dir = <<>> /\ region = "eu"
    /\ agbm_metadata = <<>> /\ features_metadata = <<>> /\ sampleIdx = <<>>
    /\ i = 1 /\ j = 1 /\ log = <<>> /\ setupRec = NoSetup

(*--------------------------- utils.py ------------------------------------*)

InitResolve ==
    /\ agbDir \in Listings(AgbPool)
    /\ trainDir \in Listings(TrainPool)
    /\ rcall = NoCall
    /\ fs = <<>> /\ hist = <<>>
    /\ OrchIdle

\* a caller invokes getFilesForChip(chip, platform)
GetFilesForChip(chip, platform) ==
    /\ rcall' = [called |-> TRUE, chip |-> chip, platform |-> platform,
                 result |-> getFilesForChip(agbDir, trainDir, chip, platform)]
    /\ UNCHANGED <<agbDir, trainDir, fileVars, orchVars>>

NextResolve == \E chip \in Chips, platform \in Platforms : GetFilesForChip(chip, platform)

SpecResolve == InitResolve /\ [][NextResolve]_vars

(*------------------------ downloadFile -----------------------------------*)

\* hist holds the last two calls, oldest first
LastTwo(h) == IF Len(h) <= 2 THEN h ELSE Tail(h)

InitDownloadFile ==
    /\ fs \in InitFs(FileRows, Cardinality(FileRows) * Cardinality(Folders))
    /\ hist = <<>>
    /\ ResolverIdle
    /\ OrchIdle

\* a caller invokes downloadFile(row, download_dir, region, folder)
DownloadFileCall(row, ddir, reg, folder, outcome) ==
    /\ LET res == downloadFile(fs, row, ddir, reg, folder, outcome)
       IN  /\ outcome \in (IF res.fetched THEN FetchOutcomes(fs, res.filepath) ELSE {"ok"})
           /\ fs' = res.fs
           /\ hist' = LastTwo(Append(hist, Logged(res)))
    /\ UNCHANGED <<resolverVars, orchVars>>

NextDownloadFile ==
    \E row \in FileRows, ddir \in DownloadDirs, reg \in Regions, folder \in Folders, outcome \in {"ok", "error"} :
        DownloadFileCall(row, ddir, reg, folder, outcome)

SpecDownloadFile == InitDownloadFile /\ [][NextDownloadFile]_vars

(*------------------------ downloadNChips ---------------------------------*)

\* every row the tables can hold
TableRows == UNION {Range(t) : t \in AgbmTables \cup FeaturesTables}

\* the sampled rows, in sample order (the code rebinds agbm_metadata to them)
SampleRows == [m \in 1..Len(sampleIdx) |-> agbm_metadata[sampleIdx[m]]]

Init ==
    /\ fs \in InitFs(TableRows, MaxInitFiles)
    /\ hist = <<>>
    /\ ResolverIdle
    /\ OrchIdle

\* a caller invokes checkForDownloadDir(download_dir) on its own
CheckForDownloadDirCall(ddir) ==
    /\ pc = "idle"
    /\ setupRec.op = "none"
    /\ LET res == checkForDownloadDir(fs, ddir)
       IN  fs' = res.fs /\ setupRec' = Logged(res)
    /\ UNCHANGED <<resolverVars, hist, pc, n, download_dir, region, agbm_metadata,
                   features_metadata, sampleIdx, i, j, log>>

\* downloadNChips(k, ddir, reg) up to the loop: directories, the two csv files, the sample
DownloadNChips(k, ddir, reg, agbmTable, featuresTable) ==
    /\ pc = "idle"
    /\ LET res == checkForDownloadDir(fs, ddir)
       IN  /\ fs' = res.fs
           /\ setupRec' = Logged(res)
           /\ log' = <<Logged(res)>>
    /\ n' = k /\ download_dir' = ddir /\ region' = reg
    /\ agbm_metadata' = agbmTable
    /\ features_metadata' = featuresTable
    /\ i' = 1 /\ j' = 1
    /\ IF k > Len(agbmTable)
       THEN \* sample raises ValueError: larger sample than population
            sampleIdx' = <<>> /\ pc' = "raised"
       ELSE /\ sampleIdx' \in Sample(Len(agbmTable), k)
            /\ pc' = IF k = 0 THEN "done" ELSE "loop"
    /\ UNCHANGED <<resolverVars, hist>>

\* downloadFilesForChipId: the next feature row of the current chip
DownloadFeature(outcome) ==
    /\ pc = "loop"
    /\ LET rows == ChipRows(features_metadata, SampleRows[i].chip_id)
       IN  /\ j <= Len(rows)
           /\ LET res == downloadFile(fs, rows[j], download_dir, region, train_features, outcome)
              IN  /\ outcome \in (IF res.fetched THEN FetchOutcomes(fs, res.filepath) ELSE {"ok"})
                  /\ fs' = res.fs
                  /\ log' = Append(log, Logged(res))
                  /\ pc' = AfterDownload(res.raised, TRUE)
    /\ j' = j + 1
    /\ UNCHANGED <<resolverVars, hist, n, download_dir, region, agbm_metadata,
                   features_metadata, sampleIdx, i, setupRec>>

\* the chip's own ground-truth row, after its feature rows
DownloadAgbm(outcome) ==
    /\ pc = "loop"
    /\ j > Len(ChipRows(features_metadata, SampleRows[i].chip_id))
    /\ LET res == downloadFile(fs, SampleRows[i], download_dir, region, train_agbm, outcome)
       IN  /\ outcome \in (IF res.fetched THEN FetchOutcomes(fs, res.filepath) ELSE {"ok"})
           /\ fs' = res.fs
           /\ log' = Append(log, Logged(res))
           /\ pc' = AfterDownload(res.raised, i < Len(sampleIdx))
    /\ i' = i + 1 /\ j' = 1
    /\ UNCHANGED <<resolverVars, hist, n, download_dir, region, agbm_metadata,
                   features_metadata, sampleIdx, setupRec>>

Next ==
    \/ \E ddir \in DownloadDirs : CheckForDownloadDirCall(ddir)
    \/ \E k \in 0..MaxN, ddir \in DownloadDirs, reg \in Regions,
          agbmTable \in AgbmTables, featuresTable \in FeaturesTables :
            DownloadNChips(k, ddir, reg, agbmTable, featuresTable)
    \/ \E outcome \in {"ok", "error"} : DownloadFeature(outcome)
    \/ \E outcome \in {"ok", "error"} : DownloadAgbm(outcome)

Spec == Init /\ [][Next]_vars

(***************************************************************************)
(* Properties of getFilesForChip, checked under SpecResolve.               *)
(***************************************************************************)

\* folder/name for each name of the listing that starts with chip and, when tag is not empty,
\* contains tag; listing order kept
Matching(folder, listing, chip, tag) ==
    LET sel == SelectSeq(listing, LAMBDA f : StartsWith(f, chip) /\ (tag = <<>> \/ Contains(f, tag)))
    IN  [k \in 1..Len(sel) |-> folder \o <<"/">> \o sel[k]]

\* the platform strings the documentation recognises
Recognized == {"AGB", "S1", "S2"}

\* C1: with platform None the call returns the AGB files, then the S1 matches, then the S2
\* matches, each group in listing order, and does not fail.
C1_AsClaimed ==
    (rcall.called /\ rcall.platform.isNone) =>
        /\ rcall.result.kind = "return"
        /\ rcall.result.files = Matching(AGB_FOLDER, agbDir, rcall.chip, <<>>)
                                \o Matching(TRAIN_FOLDER, trainDir, rcall.chip, TagS1)
                                \o Matching(TRAIN_FOLDER, trainDir, rcall.chip, TagS2)

\* C2: a platform string outside AGB, S1, S2 ends in a ValueError that carries the offending
\* value and the recognised set; nothing is returned and no directory is listed.
C2_UnknownPlatformRaises ==
    (rcall.called /\ ~rcall.platform.isNone /\ rcall.platform.val \notin Recognized) =>
        /\ rcall.result.kind = "ValueError"
        /\ rcall.result.value = rcall.platform.val
        /\ rcall.result.valid = Recognized
        /\ rcall.result.files = <<>>
        /\ rcall.result.listed = <<>>

\* a call with "S3" on directories that hold files of the chip has raised
C2_Witness ==
    /\ rcall.called /\ rcall.platform = Str("S3") /\ rcall.result.kind = "ValueError"
    /\ \E k \in 1..Len(trainDir) : StartsWith(trainDir[k], rcall.chip)
    /\ \E k \in 1..Len(agbDir) : StartsWith(agbDir[k], rcall.chip)

\* the directory and the tag of a recognised platform
FolderOf(platform) == IF platform = "AGB" THEN AGB_FOLDER ELSE TRAIN_FOLDER
ListingOf(platform) == IF platform = "AGB" THEN agbDir ELSE trainDir
TagOf(platform) == IF platform = "AGB" THEN TagAGB ELSE IF platform = "S1" THEN TagS1 ELSE TagS2

\* C10 as stated: for each of AGB, S1, S2 the call returns exactly the names of the platform's
\* directory that start with the chip id and contain the platform tag, in listing order.
C10_AsClaimed ==
    (rcall.called /\ ~rcall.platform.isNone /\ rcall.platform.val \in Recognized) =>
        /\ rcall.result.kind = "return"
        /\ rcall.result.files = Matching(FolderOf(rcall.platform.val), ListingOf(rcall.platform.val),
                                         rcall.chip, TagOf(rcall.platform.val))

\* C10 amended: S1 and S2 return the names of TRAIN_FOLDER that start with the chip id and
\* contain the tag; AGB returns every name of AGB_FOLDER that starts with the chip id, with no
\* tag test; listing order, joined to the folder; names of a longer chip id are returned too.
C10_PrefixAndTag ==
    (rcall.called /\ ~rcall.platform.isNone /\ rcall.platform.val \in Recognized) =>
        /\ rcall.result.kind = "return"
        /\ rcall.result.files =
              Matching(FolderOf(rcall.platform.val), ListingOf(rcall.platform.val), rcall.chip,
                       IF rcall.platform.val = "AGB" THEN <<>> ELSE TagOf(rcall.platform.val))

\* chip "a", platform S1, a listing holding a_x (no tag) and ab_S1 (another chip): only ab_S1 comes back
C10_Witness ==
    /\ rcall.called /\ rcall.platform = Str("S1") /\ rcall.chip = <<"a">>
    /\ Range(trainDir) = {<<"a", "_", "x">>, <<"a", "b", "_", "S", "1">>}
    /\ rcall.result.files = <<TRAIN_FOLDER \o <<"/">> \o <<"a", "b", "_", "S", "1">>>>

(***************************************************************************)
(* Properties of downloadFile, checked under SpecDownloadFile.             *)
(***************************************************************************)

\* two calls with the same record, destination, region and subfolder
SameInputs(c1, c2) ==
    /\ c1.row = c2.row /\ c1.download_dir = c2.download_dir
    /\ c1.region = c2.region /\ c1.folder = c2.folder

C4_ExistingTargetSkipped ==
    \A k \in 1..Len(hist) :
        hist[k].before # "absent" =>
            ~hist[k].fetched /\ ~hist[k].raised /\ hist[k].after = hist[k].before

\* a file found on disk, never fetched, was the target of a call and is still as found
C4_Witness ==
    \E k \in 1..Len(hist) :
        /\ hist[k].before = "old" /\ ~hist[k].fetched
        /\ At(fs, hist[k].filepath) = "old"

\* the scheme of every URI of the metadata
Scheme == <<"s", "3">>

\* C7: the URI of the region's column is scheme://bucket/key with a bucket free of "/", and
\* the target is download_dir/folder/filename with the caller's folder and the record's
\* filename; for the documented record and region eu this gives bucket `bucket`, key
\* train_features/001b0634_S1_00.tif.
C7_BucketKeyTarget ==
    \A k \in 1..Len(hist) :
        LET c == hist[k]
            uri == c.row[S3PathCol(c.region)]
        IN  /\ uri = Scheme \o <<":", "/", "/">> \o c.bucket \o <<"/">> \o c.key
            /\ "/" \notin Range(c.bucket)
            /\ c.filepath = c.download_dir \o <<"/">> \o c.folder \o <<"/">> \o c.row.filename
            /\ (c.row = DocRow /\ c.region = "eu") =>
                   /\ c.bucket = <<"b", "u", "c", "k", "e", "t">>
                   /\ c.key = train_features \o <<"/">> \o <<"0", "0", "1", "b", "0", "6", "3", "4", "_", "S", "1", "_", "0", "0", ".", "t", "i", "f">>

\* the record whose eu key is three folders deep was asked for into train_features
C7_Witness ==
    \E k \in 1..Len(hist) :
        /\ hist[k].row = OddRow /\ hist[k].region = "eu" /\ hist[k].folder = train_features
        /\ hist[k].key = <<"x", "/", "y", "/", "z", "/", "h", ".", "t", "i", "f">>
        /\ hist[k].filepath = <<"d", "l", "/", "t", "r", "a", "i", "n", "_", "f", "e", "a", "t", "u", "r", "e", "s", "/", "g", ".", "t", "i", "f">>

(***************************************************************************)
(* Properties of checkForDownloadDir and downloadNChips, checked under     *)
(* Spec.                                                                   *)
(***************************************************************************)

\* C5: checkForDownloadDir creates exactly the directories among download_dir,
\* train_features and train_agbm that are missing, each once, and nothing else, so that all
\* three exist afterwards; when all three exist it creates nothing.
C5_SetupIdempotent ==
    setupRec.op = "checkForDownloadDir" =>
        LET d == Range(SetupDirs(setupRec.download_dir))
        IN  /\ Range(setupRec.made) = d \ setupRec.before
            /\ Len(setupRec.made) = Cardinality(d \ setupRec.before)
            /\ setupRec.created = d \ setupRec.before
            /\ setupRec.after = d
            /\ (setupRec.before = d => setupRec.made = <<>>)

\* checkForDownloadDir ran on a complete tree and made nothing
C5_Witness ==
    /\ setupRec.op = "checkForDownloadDir"
    /\ setupRec.before = Range(SetupDirs(setupRec.download_dir))
    /\ setupRec.made = <<>>

\* the sample has been drawn
Sampled == pc \in {"loop", "done", "raised"} /\ n <= Len(agbm_metadata)

\* the chip ids of the sampled rows
SampledChipIds == {SampleRows[m].chip_id : m \in 1..Len(sampleIdx)}

\* no chip id on two rows of the table
UniqueChipIds(table) == \A a, b \in 1..Len(table) : a # b => table[a].chip_id # table[b].chip_id

\* C6 as stated: a sample of n of the table's rows carries n distinct chip ids, whatever the table.
C6_AsClaimed == Sampled => Cardinality(SampledChipIds) = n

\* C6 amended: a sample of n <= M rows is n distinct rows of the table; they carry n distinct
\* chip ids when no chip id is on two rows of the table.
C6_DistinctRows ==
    Sampled =>
        /\ Len(sampleIdx) = n
        /\ Range(sampleIdx) \subseteq 1..Len(agbm_metadata)
        /\ Cardinality(Range(sampleIdx)) = n
        /\ UniqueChipIds(agbm_metadata) => Cardinality(SampledChipIds) = n

\* all rows of a table without repeated chip ids were sampled
C6_Witness ==
    /\ Sampled /\ n = Len(agbm_metadata) /\ n > 1
    /\ UniqueChipIds(agbm_metadata)
    /\ Cardinality(SampledChipIds) = n

RECURSIVE ExpectedCalls(_, _)
\* for each sampled row in order: train_features with each feature row of its chip, in table
\* order, then train_agbm with the row itself
ExpectedCalls(sample, features) ==
    IF Len(sample) = 0 THEN <<>>
    ELSE LET sel == SelectSeq(features, LAMBDA r : r.chip_id = sample[1].chip_id)
         IN  [k \in 1..Len(sel) |-> <<train_features, sel[k]>>]
             \o <<<<train_agbm, sample[1]>>>>
             \o ExpectedCalls(Tail(sample), features)

\* the downloadFile calls of the log: folder and row
Calls == [k \in 1..(Len(log) - 1) |-> <<log[k + 1].folder, log[k + 1].row>>]

\* C8: the log of a run starts with the directory setup; the downloadFile calls that follow
\* are, chip by chip in sample order, the chip's feature rows into train_features and then
\* its ground-truth row into train_agbm; a run that ends without error has made all of them.
C8_CallOrder ==
    pc \in {"loop", "done"} =>
        LET exp == ExpectedCalls(SampleRows, features_metadata)
        IN  /\ log[1].op = "checkForDownloadDir"
            /\ \A k \in 2..Len(log) : log[k].op = "downloadFile"
            /\ Len(Calls) <= Len(exp)
            /\ Calls = SubSeq(exp, 1, Len(Calls))
            /\ pc = "done" => Calls = exp

\* a run over two chips, the first with two feature rows, has ended without error
C8_Witness ==
    /\ pc = "done" /\ n = 2
    /\ SampleRows[1].chip_id = "a" /\ SampleRows[2].chip_id = "b"
    /\ features_metadata = <<FeatA1, FeatB1, FeatA2>>
    /\ Len(log) = 6

\* C9: a failed fetch is the last thing the run does: it ends the run with the error, no
\* later downloadFile call (existence check or fetch) is made, the failing file is fetched
\* once, and every file fetched before is still in place.
C9_ErrorPropagates ==
    \A k \in 2..Len(log) :
        /\ log[k].raised => (k = Len(log) /\ pc = "raised" /\ log[k].fetched)
        /\ (log[k].fetched /\ ~log[k].raised) => At(fs, log[k].filepath) = "remote"

\* the fetch of a feature file failed after an earlier file was fetched, with the chip's
\* ground-truth file and another chip still to come
C9_Witness ==
    /\ pc = "raised" /\ Len(log) >= 3 /\ n >= 2 /\ i = 1
    /\ log[Len(log)].raised /\ log[Len(log)].folder = train_features
    /\ log[2].fetched /\ ~log[2].raised

====
